---- MODULE Spec2Model ----
\* Model of the proxy prober (isProxyAvailable) and the proxy selector
\* (findAvailableProxy) of src/proxy.go: goroutines, wait groups and the two
\* buffered channels, one step per statement that another goroutine can observe.
EXTENDS Integers, Sequences, FiniteSets, TLC

\* ---------------------------------------------------------------- bounds
\* Longest candidate list explored.
MaxCandidates == 2

\* ---------------------------------------------------------------- constants
\* proxy.go:27-33, the probe targets and the status code each one expects.
testURLs ==
  << [url |-> "https://www.google.com/generate_204", expectCode |-> 204],
     [url |-> "https://raw.githubusercontent.com/github/gitignore/main/Go.gitignore",
      expectCode |-> 200] >>

Targets == 1..Len(testURLs)

\* make(chan bool, len(testURLs)), proxy.go:36
resultsCap == Len(testURLs)

\* make(chan string, 1), proxy.go:74
resultChCap == 1

\* Addresses the caller may pass. The last one is rejected by url.Parse
\* (missing ']' in host); the others parse.
GoodAddrs == {"http://127.0.0.1:7890", "http://127.0.0.1:10808"}
BadAddrs == {"http://[::1"}
Addresses == GoodAddrs \cup BadAddrs

\* Values of the preferred address: none, the one main passes (main.go:327),
\* and one that does not parse.
PreferredAddrs == {"", "http://127.0.0.1:10808"} \cup BadAddrs

\* url.Parse(proxy) returns a non-nil error, proxy.go:13-14
urlParseErr(proxy) == proxy \in BadAddrs

\* What client.Get can come back with: a transport error (connection
\* refused, TLS failure, the 3 s timeout) or a response with a status code.
Responses ==
  {[err |-> TRUE, code |-> 0]} \cup {[err |-> FALSE, code |-> c] : c \in {200, 204}}

NoResp == [err |-> FALSE, code |-> -1]

\* Candidate lists of length 0..MaxCandidates, without repeated addresses.
CandidateLists ==
  {c \in UNION {[1..n -> Addresses] : n \in 0..MaxCandidates} :
     \A i, j \in DOMAIN c : c[i] = c[j] => i = j}

\* Prober calls: 0 is the call of Step 1, i >= 1 the call of candidate i.
Calls == 0..MaxCandidates
Cands == 1..MaxCandidates

VARIABLES
  configProxy,  \* findAvailableProxy's first argument
  candidates,   \* findAvailableProxy's second argument
  pc,           \* position of the goroutine running findAvailableProxy
  next,         \* index of the next candidate the range loop visits
  ret,          \* value findAvailableProxy returned
  resultCh,     \* buffer of resultCh
  closes,       \* number of times resultCh was closed
  wg,           \* counter of findAvailableProxy's WaitGroup
  cpc,          \* position of each candidate goroutine
  closer,       \* position of the goroutine of proxy.go:91-94
  sends,        \* per candidate: "none", "sent" (case resultCh <- p) or "dropped" (default)
  panicked,     \* a goroutine sent on, or closed, a closed channel
  ipc,          \* per prober call: position of the goroutine running isProxyAvailable
  tnext,        \* per prober call: index of the next target the range loop visits
  gpc,          \* per prober call and target: position of the probe goroutine
  resp,         \* per prober call and target: what client.Get returned, until the goroutine ends
  okHist,       \* per prober call and target: history of the request, "none", "ok" or "failed"
  gets,         \* per prober call and target: number of GET requests issued
  results,      \* per prober call: buffer of the results channel
  rclosed,      \* per prober call: results was closed
  pwg,          \* per prober call: counter of isProxyAvailable's WaitGroup
  verdict,      \* per prober call: "none" until it returns, then "true" or "false"
  mpc,          \* position of main and of the update function it is in
  push,         \* main's push flag (--push or -p on the command line)
  proxy,        \* what main got from findAvailableProxy
  env,          \* HTTP_PROXY and HTTPS_PROXY as set by this process ("" when not set)
  comp,         \* component being updated: "sub-store" or "sub-store-frontend"
  dest0,        \* per component: the destination file when the process started
  dest,         \* per component: the destination file now ("missing" or its content)
  artifact,     \* per component: the newly built artifact
  currentHash,  \* per component: what fileHash(destPath) gave ("nil" on error)
  gitIdx,       \* runGitCommands: index of the next command of cmds
  gitErr,       \* runGitCommands: "none" while running, then "nil" or "error"
  oplog         \* operations performed so far, in order

selVars == <<configProxy, candidates, pc, next, ret, resultCh, closes, wg, cpc,
             closer, sends, panicked>>
probeVars == <<ipc, tnext, gpc, resp, okHist, gets, results, rclosed, pwg, verdict>>
pipeVars == <<mpc, push, proxy, env, comp, dest0, dest, artifact, currentHash,
              gitIdx, gitErr, oplog>>
vars == <<configProxy, candidates, pc, next, ret, resultCh, closes, wg, cpc,
          closer, sends, panicked, ipc, tnext, gpc, resp, okHist, gets,
          results, rclosed, pwg, verdict, mpc, push, proxy, env, comp, dest0,
          dest, artifact, currentHash, gitIdx, gitErr, oplog>>

\* The components main updates, in order (main.go:343-344), named as in the
\* commit message (main.go:168, 304).
Components == <<"sub-store", "sub-store-frontend">>

\* main before its first statement, no file looked at yet.
PipeIdle ==
  /\ mpc = "start"
  /\ push = FALSE
  /\ proxy = "unset"
  /\ env = [HTTP_PROXY |-> "", HTTPS_PROXY |-> ""]
  /\ comp = 1
  /\ dest0 = [c \in DOMAIN Components |-> "missing"]
  /\ dest = [c \in DOMAIN Components |-> "missing"]
  /\ artifact = [c \in DOMAIN Components |-> "none"]
  /\ currentHash = [c \in DOMAIN Components |-> "none"]
  /\ gitIdx = 1
  /\ gitErr = "none"
  /\ oplog = << >>

\* The address prober call k works on.
addrOf(k) == IF k = 0 THEN configProxy ELSE candidates[k]

\* Variant of outcome that accepts any response without a transport error.
outcome_AnyStatus(r, expect) == ~r.err

\* resp.StatusCode == expect, after the err != nil branch, proxy.go:44-49
outcome(r, expect) == IF r.err THEN FALSE ELSE r.code = expect

\* findAvailableProxy before its first statement.
SelectorIdle ==
  /\ pc = "step1"
  /\ next = 1
  /\ ret = "unset"
  /\ resultCh = << >>
  /\ closes = 0
  /\ wg = 0
  /\ cpc = [i \in Cands |-> "idle"]
  /\ closer = "idle"
  /\ sends = [i \in Cands |-> "none"]
  /\ panicked = FALSE
  /\ ipc = [k \in Calls |-> "idle"]
  /\ tnext = [k \in Calls |-> 1]
  /\ gpc = [k \in Calls |-> [t \in Targets |-> "idle"]]
  /\ resp = [k \in Calls |-> [t \in Targets |-> NoResp]]
  /\ okHist = [k \in Calls |-> [t \in Targets |-> "none"]]
  /\ gets = [k \in Calls |-> [t \in Targets |-> 0]]
  /\ results = [k \in Calls |-> << >>]
  /\ rclosed = [k \in Calls |-> FALSE]
  /\ pwg = [k \in Calls |-> 0]
  /\ verdict = [k \in Calls |-> "none"]

Init ==
  /\ configProxy \in PreferredAddrs
  /\ candidates \in CandidateLists
  /\ SelectorIdle
  /\ PipeIdle

\* ------------------------------------------------------ isProxyAvailable

\* Variant of ProberParse that goes on after a parse error.
ProberParse_IgnoreErr(k) ==
  /\ ipc[k] = "parse"
  /\ ipc' = [ipc EXCEPT ![k] = "spawn"]
  /\ UNCHANGED <<tnext, gpc, resp, okHist, gets, results, rclosed, pwg, verdict>>
  /\ UNCHANGED selVars
  /\ UNCHANGED pipeVars

\* proxy.go:13-16: parse the address; a parse error returns false at once.
ProberParse(k) ==
  /\ ipc[k] = "parse"
  /\ IF urlParseErr(addrOf(k))
       THEN /\ ipc' = [ipc EXCEPT ![k] = "ret"]
            /\ verdict' = [verdict EXCEPT ![k] = "false"]
       ELSE /\ ipc' = [ipc EXCEPT ![k] = "spawn"]
            /\ UNCHANGED verdict
  /\ UNCHANGED <<tnext, gpc, resp, okHist, gets, results, rclosed, pwg>>
  /\ UNCHANGED selVars
  /\ UNCHANGED pipeVars

\* proxy.go:39-41: wg.Add(1) and the go statement, once per target.
ProberSpawn(k) ==
  /\ ipc[k] = "spawn"
  /\ tnext[k] <= Len(testURLs)
  /\ pwg' = [pwg EXCEPT ![k] = @ + 1]
  /\ gpc' = [gpc EXCEPT ![k][tnext[k]] = "get"]
  /\ tnext' = [tnext EXCEPT ![k] = @ + 1]
  /\ ipc' = [ipc EXCEPT ![k] = IF tnext[k] = Len(testURLs) THEN "wait" ELSE "spawn"]
  /\ UNCHANGED <<resp, okHist, gets, results, rclosed, verdict>>
  /\ UNCHANGED selVars
  /\ UNCHANGED pipeVars

\* Variant of ProbeGet that tries again after a transport error.
ProbeGet_Retry(k, t) ==
  /\ gpc[k][t] = "get"
  /\ gets' = [gets EXCEPT ![k][t] = @ + 1]
  /\ \E r \in Responses :
       /\ resp' = [resp EXCEPT ![k][t] = IF r.err THEN NoResp ELSE r]
       /\ okHist' = [okHist EXCEPT ![k][t] =
                       IF r.err THEN "none"
                       ELSE IF r.code = testURLs[t].expectCode THEN "ok" ELSE "failed"]
       /\ gpc' = [gpc EXCEPT ![k][t] = IF r.err THEN "get" ELSE "send"]
  /\ UNCHANGED <<ipc, tnext, results, rclosed, pwg, verdict>>
  /\ UNCHANGED selVars
  /\ UNCHANGED pipeVars

\* proxy.go:43: client.Get(target): one GET request is issued and comes back
\* with a transport error or a response.
ProbeGet(k, t) ==
  /\ gpc[k][t] = "get"
  /\ gets' = [gets EXCEPT ![k][t] = @ + 1]
  /\ \E r \in Responses :
       /\ resp' = [resp EXCEPT ![k][t] = r]
       /\ okHist' = [okHist EXCEPT ![k][t] =
                       IF ~r.err /\ r.code = testURLs[t].expectCode
                         THEN "ok" ELSE "failed"]
  /\ gpc' = [gpc EXCEPT ![k][t] = "send"]
  /\ UNCHANGED <<ipc, tnext, results, rclosed, pwg, verdict>>
  /\ UNCHANGED selVars
  /\ UNCHANGED pipeVars

\* proxy.go:44-49 and the deferred calls of lines 42 and 48: send the outcome
\* on results (blocking while the buffer is full), close the response and
\* wg.Done.
ProbeSend(k, t) ==
  /\ gpc[k][t] = "send"
  /\ Len(results[k]) < resultsCap
  /\ results' = [results EXCEPT ![k] = Append(@, outcome(resp[k][t], testURLs[t].expectCode))]
  /\ pwg' = [pwg EXCEPT ![k] = @ - 1]
  /\ gpc' = [gpc EXCEPT ![k][t] = "done"]
  /\ resp' = [resp EXCEPT ![k][t] = NoResp]
  /\ UNCHANGED <<ipc, tnext, okHist, gets, rclosed, verdict>>
  /\ UNCHANGED <<configProxy, candidates, pc, next, ret, resultCh, closes, wg,
                 cpc, closer, sends>>
  /\ panicked' = (panicked \/ rclosed[k])
  /\ UNCHANGED pipeVars

\* proxy.go:58-63: the range over the closed results channel: the first
\* false outcome read returns false, the end of the channel returns true.
RECURSIVE rangeResults(_)
rangeResults(buf) ==
  IF buf = << >> THEN TRUE
  ELSE IF ~Head(buf) THEN FALSE
  ELSE rangeResults(Tail(buf))

\* What the range of proxy.go:58-63 leaves unread in the channel.
RECURSIVE unread(_)
unread(buf) ==
  IF buf = << >> THEN << >>
  ELSE IF ~Head(buf) THEN Tail(buf)
  ELSE unread(Tail(buf))

\* Variant of ProberCollect that returns false at the first false outcome
\* delivered, without waiting for the other probe.
ProberCollect_ShortCircuit(k) ==
  /\ ipc[k] = "wait"
  /\ pwg[k] = 0 \/ \E n \in DOMAIN results[k] : ~results[k][n]
  /\ rclosed' = [rclosed EXCEPT ![k] = pwg[k] = 0]
  /\ verdict' = [verdict EXCEPT ![k] = IF rangeResults(results[k]) THEN "true" ELSE "false"]
  /\ results' = [results EXCEPT ![k] = unread(@)]
  /\ ipc' = [ipc EXCEPT ![k] = "ret"]
  /\ UNCHANGED <<tnext, gpc, resp, okHist, gets, pwg>>
  /\ UNCHANGED selVars
  /\ UNCHANGED pipeVars

\* proxy.go:54-63: wg.Wait() returns once the counter is zero, results is
\* closed and read until the first false outcome or its end; the goroutine
\* works alone on the channel from the wait on.
ProberCollect(k) ==
  /\ ipc[k] = "wait"
  /\ pwg[k] = 0
  /\ rclosed' = [rclosed EXCEPT ![k] = TRUE]
  /\ verdict' = [verdict EXCEPT ![k] = IF rangeResults(results[k]) THEN "true" ELSE "false"]
  /\ results' = [results EXCEPT ![k] = unread(@)]
  /\ ipc' = [ipc EXCEPT ![k] = "ret"]
  /\ UNCHANGED <<tnext, gpc, resp, okHist, gets, pwg>>
  /\ UNCHANGED selVars
  /\ UNCHANGED pipeVars

\* ---------------------------------------------------- findAvailableProxy

\* proxy.go:69: configProxy != "" holds, isProxyAvailable(configProxy) is called.
MainCallPreferred ==
  /\ pc = "step1"
  /\ configProxy # ""
  /\ pc' = "probing"
  /\ ipc' = [ipc EXCEPT ![0] = "parse"]
  /\ UNCHANGED <<configProxy, candidates, next, ret, resultCh, closes, wg, cpc,
                 closer, sends, panicked>>
  /\ UNCHANGED <<tnext, gpc, resp, okHist, gets, results, rclosed, pwg, verdict>>
  /\ UNCHANGED pipeVars

\* proxy.go:69: configProxy == "" short-circuits the condition; Step 2 starts.
MainSkipPreferred ==
  /\ pc = "step1"
  /\ configProxy = ""
  /\ pc' = "spawn"
  /\ UNCHANGED <<configProxy, candidates, next, ret, resultCh, closes, wg, cpc,
                 closer, sends, panicked>>
  /\ UNCHANGED probeVars
  /\ UNCHANGED pipeVars

\* Variant of MainPreferredRet that falls through to Step 2 whatever the verdict.
MainPreferredRet_FallThrough ==
  /\ pc = "probing"
  /\ ipc[0] = "ret"
  /\ pc' = "spawn"
  /\ ipc' = [ipc EXCEPT ![0] = "returned"]
  /\ okHist' = [okHist EXCEPT ![0] = [t \in Targets |-> "none"]]
  /\ results' = [results EXCEPT ![0] = << >>]
  /\ UNCHANGED <<configProxy, candidates, next, ret, resultCh, closes, wg, cpc,
                 closer, sends, panicked>>
  /\ UNCHANGED <<tnext, gpc, resp, gets, rclosed, pwg, verdict>>
  /\ UNCHANGED pipeVars

\* proxy.go:69-71: isProxyAvailable(configProxy) has returned; its frame (the
\* results channel, and the history kept of its requests) is dropped.
MainPreferredRet ==
  /\ pc = "probing"
  /\ ipc[0] = "ret"
  /\ IF verdict[0] = "true"
       THEN /\ pc' = "done"
            /\ ret' = configProxy
       ELSE /\ pc' = "spawn"
            /\ UNCHANGED ret
  /\ ipc' = [ipc EXCEPT ![0] = "returned"]
  /\ okHist' = [okHist EXCEPT ![0] = [t \in Targets |-> "none"]]
  /\ results' = [results EXCEPT ![0] = << >>]
  /\ UNCHANGED <<configProxy, candidates, next, resultCh, closes, wg, cpc,
                 closer, sends, panicked>>
  /\ UNCHANGED <<tnext, gpc, resp, gets, rclosed, pwg, verdict>>
  /\ UNCHANGED pipeVars

\* Variant of MainSpawnCandidate that starts a candidate only after the
\* previous ones have finished.
MainSpawnCandidate_Sequential ==
  /\ pc = "spawn"
  /\ next <= Len(candidates)
  /\ \A j \in 1..(next - 1) : cpc[j] = "done"
  /\ wg' = wg + 1
  /\ cpc' = [cpc EXCEPT ![next] = "start"]
  /\ next' = next + 1
  /\ UNCHANGED <<configProxy, candidates, pc, ret, resultCh, closes, closer,
                 sends, panicked>>
  /\ UNCHANGED probeVars
  /\ UNCHANGED pipeVars

\* proxy.go:77-79: wg.Add(1) and the go statement, once per candidate.
MainSpawnCandidate ==
  /\ pc = "spawn"
  /\ next <= Len(candidates)
  /\ wg' = wg + 1
  /\ cpc' = [cpc EXCEPT ![next] = "start"]
  /\ next' = next + 1
  /\ UNCHANGED <<configProxy, candidates, pc, ret, resultCh, closes, closer,
                 sends, panicked>>
  /\ UNCHANGED probeVars
  /\ UNCHANGED pipeVars

\* proxy.go:91: the go statement of the closing goroutine, after the loop.
MainSpawnCloser ==
  /\ pc = "spawn"
  /\ next > Len(candidates)
  /\ closer' = "wait"
  /\ pc' = "recv"
  /\ UNCHANGED <<configProxy, candidates, next, ret, resultCh, closes, wg, cpc,
                 sends, panicked>>
  /\ UNCHANGED probeVars
  /\ UNCHANGED pipeVars

\* Variant of MainRecv that looks at the closed flag before the buffer.
MainRecv_ClosedFirst ==
  /\ pc = "recv"
  /\ \/ /\ closes > 0
        /\ ret' = ""
        /\ UNCHANGED resultCh
     \/ /\ closes = 0
        /\ resultCh # << >>
        /\ ret' = Head(resultCh)
        /\ resultCh' = Tail(resultCh)
  /\ pc' = "done"
  /\ UNCHANGED <<configProxy, candidates, next, closes, wg, cpc, closer, sends,
                 panicked>>
  /\ UNCHANGED probeVars
  /\ UNCHANGED pipeVars

\* Variant of MainRecv that returns the preferred address when the channel
\* is closed and empty.
MainRecv_Fallback ==
  /\ pc = "recv"
  /\ \/ /\ resultCh # << >>
        /\ ret' = Head(resultCh)
        /\ resultCh' = Tail(resultCh)
     \/ /\ resultCh = << >>
        /\ closes > 0
        /\ ret' = configProxy
        /\ UNCHANGED resultCh
  /\ pc' = "done"
  /\ UNCHANGED <<configProxy, candidates, next, closes, wg, cpc, closer, sends,
                 panicked>>
  /\ UNCHANGED probeVars
  /\ UNCHANGED pipeVars

\* Variant of MainRecv that receives only after every candidate has finished.
MainRecv_WaitAll ==
  /\ pc = "recv"
  /\ wg = 0
  /\ \/ /\ resultCh # << >>
        /\ ret' = Head(resultCh)
        /\ resultCh' = Tail(resultCh)
     \/ /\ resultCh = << >>
        /\ closes > 0
        /\ ret' = ""
        /\ UNCHANGED resultCh
  /\ pc' = "done"
  /\ UNCHANGED <<configProxy, candidates, next, closes, wg, cpc, closer, sends,
                 panicked>>
  /\ UNCHANGED probeVars
  /\ UNCHANGED pipeVars

\* proxy.go:97-100: receive from resultCh: a buffered value is returned, a
\* closed and empty channel returns "".
MainRecv ==
  /\ pc = "recv"
  /\ \/ /\ resultCh # << >>
        /\ ret' = Head(resultCh)
        /\ resultCh' = Tail(resultCh)
     \/ /\ resultCh = << >>
        /\ closes > 0
        /\ ret' = ""
        /\ UNCHANGED resultCh
  /\ pc' = "done"
  /\ UNCHANGED <<configProxy, candidates, next, closes, wg, cpc, closer, sends,
                 panicked>>
  /\ UNCHANGED probeVars
  /\ UNCHANGED pipeVars

\* proxy.go:81: the candidate goroutine calls isProxyAvailable(p).
CandCall(i) ==
  /\ cpc[i] = "start"
  /\ cpc' = [cpc EXCEPT ![i] = "probing"]
  /\ ipc' = [ipc EXCEPT ![i] = "parse"]
  /\ UNCHANGED <<configProxy, candidates, pc, next, ret, resultCh, closes, wg,
                 closer, sends, panicked>>
  /\ UNCHANGED <<tnext, gpc, resp, okHist, gets, results, rclosed, pwg, verdict>>
  /\ UNCHANGED pipeVars

\* Variant of CandRet that sends whatever the verdict.
CandRet_AlwaysSend(i) ==
  /\ cpc[i] = "probing"
  /\ ipc[i] = "ret"
  /\ cpc' = [cpc EXCEPT ![i] = "select"]
  /\ ipc' = [ipc EXCEPT ![i] = "returned"]
  /\ okHist' = [okHist EXCEPT ![i] = [t \in Targets |-> "none"]]
  /\ results' = [results EXCEPT ![i] = << >>]
  /\ UNCHANGED <<configProxy, candidates, pc, next, ret, resultCh, closes, wg,
                 closer, sends, panicked>>
  /\ UNCHANGED <<tnext, gpc, resp, gets, rclosed, pwg, verdict>>
  /\ UNCHANGED pipeVars

\* Variant of CandRet whose wg.Done is not deferred: the false path misses it.
CandRet_NoDone(i) ==
  /\ cpc[i] = "probing"
  /\ ipc[i] = "ret"
  /\ cpc' = [cpc EXCEPT ![i] = IF verdict[i] = "true" THEN "select" ELSE "done"]
  /\ ipc' = [ipc EXCEPT ![i] = "returned"]
  /\ okHist' = [okHist EXCEPT ![i] = [t \in Targets |-> "none"]]
  /\ results' = [results EXCEPT ![i] = << >>]
  /\ UNCHANGED <<configProxy, candidates, pc, next, ret, resultCh, closes, wg,
                 closer, sends, panicked>>
  /\ UNCHANGED <<tnext, gpc, resp, gets, rclosed, pwg, verdict>>
  /\ UNCHANGED pipeVars

\* proxy.go:81: isProxyAvailable(p) has returned and its frame is dropped;
\* false skips the select and the deferred wg.Done of line 80 runs.
CandRet(i) ==
  /\ cpc[i] = "probing"
  /\ ipc[i] = "ret"
  /\ IF verdict[i] = "true"
       THEN /\ cpc' = [cpc EXCEPT ![i] = "select"]
            /\ UNCHANGED wg
       ELSE /\ cpc' = [cpc EXCEPT ![i] = "done"]
            /\ wg' = wg - 1
  /\ ipc' = [ipc EXCEPT ![i] = "returned"]
  /\ okHist' = [okHist EXCEPT ![i] = [t \in Targets |-> "none"]]
  /\ results' = [results EXCEPT ![i] = << >>]
  /\ UNCHANGED <<configProxy, candidates, pc, next, ret, resultCh, closes,
                 closer, sends, panicked>>
  /\ UNCHANGED <<tnext, gpc, resp, gets, rclosed, pwg, verdict>>
  /\ UNCHANGED pipeVars

\* Variant of CandSelect on an unbuffered channel: the send is taken only
\* when the caller is already at its receive.
CandSelect_Unbuffered(i) ==
  /\ cpc[i] = "select"
  /\ IF closes > 0
       THEN /\ panicked' = TRUE
            /\ UNCHANGED <<resultCh, sends>>
       ELSE /\ UNCHANGED panicked
            /\ IF pc = "recv" /\ resultCh = << >>
                 THEN /\ resultCh' = Append(resultCh, candidates[i])
                      /\ sends' = [sends EXCEPT ![i] = "sent"]
                 ELSE /\ UNCHANGED resultCh
                      /\ sends' = [sends EXCEPT ![i] = "dropped"]
  /\ cpc' = [cpc EXCEPT ![i] = "done"]
  /\ wg' = wg - 1
  /\ UNCHANGED <<configProxy, candidates, pc, next, ret, closes, closer>>
  /\ UNCHANGED probeVars
  /\ UNCHANGED pipeVars

\* Variant of CandSelect on a channel with room for one more address.
CandSelect_ExtraSlot(i) ==
  /\ cpc[i] = "select"
  /\ IF closes > 0
       THEN /\ panicked' = TRUE
            /\ UNCHANGED <<resultCh, sends>>
       ELSE /\ UNCHANGED panicked
            /\ IF Len(resultCh) < resultChCap + 1
                 THEN /\ resultCh' = Append(resultCh, candidates[i])
                      /\ sends' = [sends EXCEPT ![i] = "sent"]
                 ELSE /\ UNCHANGED resultCh
                      /\ sends' = [sends EXCEPT ![i] = "dropped"]
  /\ cpc' = [cpc EXCEPT ![i] = "done"]
  /\ wg' = wg - 1
  /\ UNCHANGED <<configProxy, candidates, pc, next, ret, closes, closer>>
  /\ UNCHANGED probeVars
  /\ UNCHANGED pipeVars

\* proxy.go:82-85 and the deferred wg.Done: the select sends p when resultCh
\* has room and takes the default branch otherwise.
CandSelect(i) ==
  /\ cpc[i] = "select"
  /\ IF closes > 0
       THEN /\ panicked' = TRUE
            /\ UNCHANGED <<resultCh, sends>>
       ELSE /\ UNCHANGED panicked
            /\ IF Len(resultCh) < resultChCap
                 THEN /\ resultCh' = Append(resultCh, candidates[i])
                      /\ sends' = [sends EXCEPT ![i] = "sent"]
                 ELSE /\ UNCHANGED resultCh
                      /\ sends' = [sends EXCEPT ![i] = "dropped"]
  /\ cpc' = [cpc EXCEPT ![i] = "done"]
  /\ wg' = wg - 1
  /\ UNCHANGED <<configProxy, candidates, pc, next, ret, closes, closer>>
  /\ UNCHANGED probeVars
  /\ UNCHANGED pipeVars

\* Variant of CloserWait that does not wait for the candidates.
CloserWait_NoWait ==
  /\ closer = "wait"
  /\ closer' = "close"
  /\ UNCHANGED <<configProxy, candidates, pc, next, ret, resultCh, closes, wg,
                 cpc, sends, panicked>>
  /\ UNCHANGED probeVars
  /\ UNCHANGED pipeVars

\* proxy.go:92: wg.Wait() returns once the counter is zero.
CloserWait ==
  /\ closer = "wait"
  /\ wg = 0
  /\ closer' = "close"
  /\ UNCHANGED <<configProxy, candidates, pc, next, ret, resultCh, closes, wg,
                 cpc, sends, panicked>>
  /\ UNCHANGED probeVars
  /\ UNCHANGED pipeVars

\* Variant of CloserClose that ends without closing resultCh.
CloserClose_NoClose ==
  /\ closer = "close"
  /\ closer' = "done"
  /\ UNCHANGED <<configProxy, candidates, pc, next, ret, resultCh, closes, wg,
                 cpc, sends, panicked>>
  /\ UNCHANGED probeVars
  /\ UNCHANGED pipeVars

\* proxy.go:93: close(resultCh).
CloserClose ==
  /\ closer = "close"
  /\ closes' = closes + 1
  /\ panicked' = (panicked \/ closes > 0)
  /\ closer' = "done"
  /\ UNCHANGED <<configProxy, candidates, pc, next, ret, resultCh, wg, cpc,
                 sends>>
  /\ UNCHANGED probeVars
  /\ UNCHANGED pipeVars

Next ==
  \/ MainCallPreferred
  \/ MainSkipPreferred
  \/ MainPreferredRet
  \/ MainSpawnCandidate
  \/ MainSpawnCloser
  \/ MainRecv
  \/ CloserWait
  \/ CloserClose
  \/ \E i \in Cands : CandCall(i)
  \/ \E i \in Cands : CandRet(i)
  \/ \E i \in Cands : CandSelect(i)
  \/ \E k \in Calls : ProberParse(k)
  \/ \E k \in Calls : ProberSpawn(k)
  \/ \E k \in Calls : ProberCollect(k)
  \/ \E k \in Calls, t \in Targets : ProbeGet(k, t)
  \/ \E k \in Calls, t \in Targets : ProbeSend(k, t)

Spec == Init /\ [][Next]_vars

\* ------------------------------------------------------------ scheduling

\* The steps of the goroutine that runs findAvailableProxy itself.
MainStep ==
  \/ MainCallPreferred
  \/ MainSkipPreferred
  \/ MainPreferredRet
  \/ MainSpawnCandidate
  \/ MainSpawnCloser
  \/ MainRecv

\* Only the calling goroutine is scheduled fairly; every other goroutine
\* may stall for ever.
SpecMainFair == Init /\ [][Next]_vars /\ WF_vars(MainStep)

\* The Go scheduler runs every runnable goroutine, and every client.Get
\* returns within its 3 s timeout: as long as some goroutine can take a step,
\* a step is taken.
FairSpec == Init /\ [][Next]_vars /\ WF_vars(Next)

\* ------------------------------------------------------------------ main

\* main.go:327, the preferred address main passes.
preferredProxy == "http://127.0.0.1:10808"

\* main.go:318-325
commonProxies ==
  << "http://127.0.0.1:7890", "http://127.0.0.1:7891", "http://127.0.0.1:1080",
     "http://127.0.0.1:8080", "http://127.0.0.1:10808", "http://127.0.0.1:10809" >>

\* What findAvailableProxy can hand back to main: "", the preferred address
\* or one of the candidates (proxy.go:70, 98, 100).
SelectorResults ==
  {""} \cup {preferredProxy} \cup {commonProxies[i] : i \in DOMAIN commonProxies}

\* Contents a destination file or a newly built artifact can have.
Contents == {"v1", "v2"}
FileStates == {"missing"} \cup Contents

\* sha256.Sum256 / fileHash's digest of a content, main.go:73-77, 148, 284
sha256(c) == CASE c = "v1" -> "9f2c" [] c = "v2" -> "41ab"

\* fileHash(destPath), main.go:67-78 with 143-146: nil when the file is
\* missing or cannot be read, its digest otherwise.
fileHash(f) == IF f = "missing" THEN {"nil"} ELSE {sha256(f), "nil"}

\* bytes.Equal(currentHash, newHash[:]), main.go:150, 286: a nil slice never
\* equals a 32-byte digest.
bytesEqual(a, b) == a # "nil" /\ a = b

\* cmds of runGitCommands, main.go:82-94
cmds(p) == <<"git add", "git commit">> \o (IF p THEN <<"git push">> ELSE << >>)

\* One entry of the operation log.
Op(name, c, good) == [op |-> name, arg |-> c, ok |-> good]

\* The update function returns: the next component, or the end of main.
nextComponent == IF comp < Len(Components) THEN "fetch" ELSE "finished"

PipeInit ==
  /\ configProxy = preferredProxy
  /\ candidates = commonProxies
  /\ SelectorIdle
  /\ mpc = "start"
  /\ push \in BOOLEAN
  /\ proxy = "unset"
  /\ env = [HTTP_PROXY |-> "", HTTPS_PROXY |-> ""]
  /\ comp = 1
  /\ dest0 \in [DOMAIN Components -> FileStates]
  /\ dest = dest0
  /\ artifact = [c \in DOMAIN Components |-> "none"]
  /\ currentHash = [c \in DOMAIN Components |-> "none"]
  /\ gitIdx = 1
  /\ gitErr = "none"
  /\ oplog = << >>

\* main.go:327-328: the call of findAvailableProxy and the test of its result.
MainFindProxy ==
  /\ mpc = "start"
  /\ \E r \in SelectorResults :
       /\ proxy' = r
       /\ mpc' = IF r # "" THEN "setenv1" ELSE "mkdir"
  /\ oplog' = Append(oplog, Op("findAvailableProxy", "", TRUE))
  /\ UNCHANGED <<push, env, comp, dest0, dest, artifact, currentHash, gitIdx, gitErr>>
  /\ UNCHANGED <<selVars, probeVars>>

\* main.go:329
MainSetenvHTTP ==
  /\ mpc = "setenv1"
  /\ env' = [env EXCEPT !.HTTP_PROXY = proxy]
  /\ mpc' = "setenv2"
  /\ UNCHANGED <<push, proxy, comp, dest0, dest, artifact, currentHash, gitIdx,
                 gitErr, oplog>>
  /\ UNCHANGED <<selVars, probeVars>>

\* Variant of MainSetenvHTTPS that leaves HTTPS_PROXY alone.
MainSetenvHTTPS_Skip ==
  /\ mpc = "setenv2"
  /\ mpc' = "mkdir"
  /\ UNCHANGED <<push, proxy, env, comp, dest0, dest, artifact, currentHash,
                 gitIdx, gitErr, oplog>>
  /\ UNCHANGED <<selVars, probeVars>>

\* main.go:330
MainSetenvHTTPS ==
  /\ mpc = "setenv2"
  /\ env' = [env EXCEPT !.HTTPS_PROXY = proxy]
  /\ mpc' = "mkdir"
  /\ UNCHANGED <<push, proxy, comp, dest0, dest, artifact, currentHash, gitIdx,
                 gitErr, oplog>>
  /\ UNCHANGED <<selVars, probeVars>>

\* main.go:339-341: os.MkdirAll(destDir); log.Fatalf on error.
MainMkdir ==
  /\ mpc = "mkdir"
  /\ \E good \in BOOLEAN :
       /\ oplog' = Append(oplog, Op("mkdir", "", good))
       /\ mpc' = IF good THEN "fetch" ELSE "fatal"
  /\ UNCHANGED <<push, proxy, env, comp, dest0, dest, artifact, currentHash,
                 gitIdx, gitErr>>
  /\ UNCHANGED <<selVars, probeVars>>

\* main.go:113-127 and 174-188: fetchLatestRelease and the search for the
\* asset; log.Fatal when the request fails or the asset is not in the release.
UpdFetch ==
  /\ mpc = "fetch"
  /\ \E good \in BOOLEAN :
       /\ oplog' = Append(oplog, Op("fetch", Components[comp], good))
       /\ mpc' = IF good THEN "download" ELSE "fatal"
  /\ UNCHANGED <<push, proxy, env, comp, dest0, dest, artifact, currentHash,
                 gitIdx, gitErr>>
  /\ UNCHANGED <<selVars, probeVars>>

\* main.go:132-135 and 193-196: downloadFile; log.Fatalf on error.
UpdDownload ==
  /\ mpc = "download"
  /\ \E good \in BOOLEAN :
       /\ oplog' = Append(oplog, Op("download", Components[comp], good))
       /\ mpc' = IF good THEN "build" ELSE "fatal"
  /\ UNCHANGED <<push, proxy, env, comp, dest0, dest, artifact, currentHash,
                 gitIdx, gitErr>>
  /\ UNCHANGED <<selVars, probeVars>>

\* main.go:137-140 and 198-276: the artifact is built (zstd of the bundle;
\* unzip, tar and zstd of the dist archive); log.Fatalf on error.
UpdBuild ==
  /\ mpc = "build"
  /\ \/ /\ \E a \in Contents : artifact' = [artifact EXCEPT ![comp] = a]
        /\ oplog' = Append(oplog, Op("build", Components[comp], TRUE))
        /\ mpc' = "hash"
     \/ /\ oplog' = Append(oplog, Op("build", Components[comp], FALSE))
        /\ mpc' = "fatal"
        /\ UNCHANGED artifact
  /\ UNCHANGED <<push, proxy, env, comp, dest0, dest, currentHash, gitIdx, gitErr>>
  /\ UNCHANGED <<selVars, probeVars>>

\* main.go:143-146 and 279-282: fileHash(destPath); an error is at most logged.
UpdHash ==
  /\ mpc = "hash"
  /\ \E h \in fileHash(dest[comp]) : currentHash' = [currentHash EXCEPT ![comp] = h]
  /\ mpc' = "compare"
  /\ UNCHANGED <<push, proxy, env, comp, dest0, dest, artifact, gitIdx, gitErr, oplog>>
  /\ UNCHANGED <<selVars, probeVars>>

\* Variant of UpdCompare that never skips the update.
UpdCompare_NoSkip ==
  /\ mpc = "compare"
  /\ mpc' = "write"
  /\ UNCHANGED <<push, proxy, env, comp, dest0, dest, artifact, currentHash,
                 gitIdx, gitErr, oplog>>
  /\ UNCHANGED <<selVars, probeVars>>

\* main.go:148-153 and 284-289: equal hashes return from the update function.
UpdCompare ==
  /\ mpc = "compare"
  /\ IF bytesEqual(currentHash[comp], sha256(artifact[comp]))
       THEN /\ mpc' = nextComponent
            /\ comp' = IF comp < Len(Components) THEN comp + 1 ELSE comp
       ELSE /\ mpc' = "write"
            /\ UNCHANGED comp
  /\ UNCHANGED <<push, proxy, env, dest0, dest, artifact, currentHash, gitIdx,
                 gitErr, oplog>>
  /\ UNCHANGED <<selVars, probeVars>>

\* main.go:156-158 and 292-294: os.WriteFile(destPath); log.Fatalf on error.
UpdWrite ==
  /\ mpc = "write"
  /\ \/ /\ dest' = [dest EXCEPT ![comp] = artifact[comp]]
        /\ oplog' = Append(oplog, Op("write", Components[comp], TRUE))
        /\ mpc' = "chdir"
     \/ /\ oplog' = Append(oplog, Op("write", Components[comp], FALSE))
        /\ mpc' = "fatal"
        /\ UNCHANGED dest
  /\ UNCHANGED <<push, proxy, env, comp, dest0, artifact, currentHash, gitIdx, gitErr>>
  /\ UNCHANGED <<selVars, probeVars>>

\* main.go:161-168 and 297-304: os.Chdir(gitDir), log.Fatalf on error, then
\* the call of runGitCommands.
UpdChdir ==
  /\ mpc = "chdir"
  /\ \E good \in BOOLEAN :
       /\ oplog' = Append(oplog, Op("chdir", Components[comp], good))
       /\ mpc' = IF good THEN "git" ELSE "fatal"
  /\ gitIdx' = 1
  /\ gitErr' = "none"
  /\ UNCHANGED <<push, proxy, env, comp, dest0, dest, artifact, currentHash>>
  /\ UNCHANGED <<selVars, probeVars>>

\* Variant of GitCmd that goes on to the next command after a failure.
GitCmd_IgnoreErr ==
  /\ mpc = "git"
  /\ gitIdx <= Len(cmds(push))
  /\ \E good \in BOOLEAN :
       oplog' = Append(oplog, Op(cmds(push)[gitIdx], Components[comp], good))
  /\ gitIdx' = gitIdx + 1
  /\ UNCHANGED <<mpc, gitErr>>
  /\ UNCHANGED <<push, proxy, env, comp, dest0, dest, artifact, currentHash>>
  /\ UNCHANGED <<selVars, probeVars>>

\* main.go:96-101: one iteration of the loop over cmds: the command is run,
\* an error returns from runGitCommands.
GitCmd ==
  /\ mpc = "git"
  /\ gitIdx <= Len(cmds(push))
  /\ \E good \in BOOLEAN :
       /\ oplog' = Append(oplog, Op(cmds(push)[gitIdx], Components[comp], good))
       /\ IF good
            THEN /\ gitIdx' = gitIdx + 1
                 /\ UNCHANGED <<mpc, gitErr>>
            ELSE /\ gitErr' = "error"
                 /\ mpc' = "gitret"
                 /\ UNCHANGED gitIdx
  /\ UNCHANGED <<push, proxy, env, comp, dest0, dest, artifact, currentHash>>
  /\ UNCHANGED <<selVars, probeVars>>

\* main.go:103-109: the loop is over, runGitCommands returns nil.
GitDone ==
  /\ mpc = "git"
  /\ gitIdx > Len(cmds(push))
  /\ gitErr' = "nil"
  /\ mpc' = "gitret"
  /\ UNCHANGED <<push, proxy, env, comp, dest0, dest, artifact, currentHash,
                 gitIdx, oplog>>
  /\ UNCHANGED <<selVars, probeVars>>

\* main.go:168-171 and 304-307: log.Fatalf on an error of runGitCommands,
\* otherwise the update function returns.
UpdGitRet ==
  /\ mpc = "gitret"
  /\ IF gitErr = "error"
       THEN /\ mpc' = "fatal"
            /\ UNCHANGED comp
       ELSE /\ mpc' = nextComponent
            /\ comp' = IF comp < Len(Components) THEN comp + 1 ELSE comp
  /\ UNCHANGED <<push, proxy, env, dest0, dest, artifact, currentHash, gitIdx,
                 gitErr, oplog>>
  /\ UNCHANGED <<selVars, probeVars>>

PipeNext ==
  \/ MainFindProxy
  \/ MainSetenvHTTP
  \/ MainSetenvHTTPS
  \/ MainMkdir
  \/ UpdFetch
  \/ UpdDownload
  \/ UpdBuild
  \/ UpdHash
  \/ UpdCompare
  \/ UpdWrite
  \/ UpdChdir
  \/ GitCmd
  \/ GitDone
  \/ UpdGitRet

PipeSpec == PipeInit /\ [][PipeNext]_vars

\* ---------------------------------------------------------------- claims

Used == 1..Len(candidates)

\* A probe target's request came back without transport error and with the
\* status code the target expects.
targetOK(k, t) == okHist[k][t] = "ok"

\* C1: when the preferred address is non-empty and its probe says available,
\* findAvailableProxy returns it and Step 2 never starts: no candidate
\* goroutine, no candidate prober call, no GET on behalf of a candidate.
C1_PreferredNoCandidateProbe ==
  (configProxy # "" /\ verdict[0] = "true") =>
     /\ pc \in {"probing", "done"}
     /\ pc = "done" => ret = configProxy
     /\ closer = "idle"
     /\ \A i \in Cands :
          /\ cpc[i] = "idle"
          /\ ipc[i] = "idle"
          /\ \A t \in Targets : gets[i][t] = 0 /\ gpc[i][t] = "idle"

C1_Witness ==
  /\ pc = "done"
  /\ configProxy \in GoodAddrs
  /\ verdict[0] = "true"
  /\ ret = configProxy
  /\ Len(candidates) = 2
  /\ \A t \in Targets : gets[0][t] = 1

\* C2: for an address that parses, isProxyAvailable returns true exactly when
\* every probe target came back without transport error and with its expected
\* status code, and false otherwise, whatever the order in which the probes
\* delivered their outcomes.
C2_VerdictIsConjunction ==
  \A k \in Calls :
    (ipc[k] = "ret" /\ addrOf(k) \notin BadAddrs) =>
       /\ verdict[k] \in {"true", "false"}
       /\ (verdict[k] = "true") = (\A t \in Targets : targetOK(k, t))
       /\ (verdict[k] = "false") = (\E t \in Targets : ~targetOK(k, t))

C2_Witness ==
  \E k1, k2 \in Calls :
    /\ ipc[k1] = "ret" /\ verdict[k1] = "true"
    /\ ipc[k2] = "ret" /\ verdict[k2] = "false"
    /\ targetOK(k2, 1)
    /\ okHist[k2][2] = "failed"

\* C3: a non-empty result is the preferred address or a member of candidates
\* and the prober call made for it in this call returned true; an unavailable
\* candidate is never returned.
C3_ResultWasAvailable ==
  (pc = "done" /\ ret # "") =>
     \/ ret = configProxy /\ verdict[0] = "true"
     \/ \E i \in Used : candidates[i] = ret /\ verdict[i] = "true"

C3_Witness ==
  /\ pc = "done"
  /\ Len(candidates) = 2
  /\ verdict[1] = "true"
  /\ verdict[2] = "true"
  /\ ret = candidates[2]

\* C4: with an empty preferred address, once every candidate's probe has
\* returned and exactly one of them returned true, the value
\* findAvailableProxy returned is that candidate: never "" and never another
\* candidate, in whatever order the candidates finished.
C4_SingleAvailableWins ==
  \A i \in Used :
    ( /\ configProxy = ""
      /\ pc = "done"
      /\ verdict[i] = "true"
      /\ \A j \in Used \ {i} : verdict[j] = "false" ) => ret = candidates[i]

C4_Witness ==
  /\ configProxy = ""
  /\ pc = "done"
  /\ Len(candidates) = 2
  /\ verdict[1] = "true"
  /\ verdict[2] = "false"
  /\ candidates[2] \in GoodAddrs
  /\ closes = 1
  /\ ret = candidates[1]

\* C5: when Step 1 gives no result (preferred empty or unavailable) and every
\* candidate probe returned false, or there is no candidate, the value
\* returned is "" and no goroutine panicked.
C5_ExhaustionReturnsNone ==
  ( /\ pc = "done"
    /\ configProxy = "" \/ verdict[0] = "false"
    /\ \A i \in Used : verdict[i] = "false" ) => (ret = "" /\ ~panicked)

C5_Witness ==
  /\ pc = "done"
  /\ configProxy \in GoodAddrs
  /\ verdict[0] = "false"
  /\ candidates = << >>
  /\ ret = ""

\* C6: a prober call on an address that does not parse starts no probe
\* goroutine, issues no GET, returns false, and raises nothing: the caller
\* goes on.
C6_ParseFailureNoRequest ==
  \A k \in Calls :
    (ipc[k] # "idle" /\ addrOf(k) \in BadAddrs) =>
       /\ ipc[k] \in {"parse", "ret", "returned"}
       /\ \A t \in Targets : gets[k][t] = 0 /\ gpc[k][t] = "idle"
       /\ ipc[k] \in {"ret", "returned"} => verdict[k] = "false"
       /\ ~panicked

C6_Witness ==
  /\ pc = "done"
  /\ ret \in GoodAddrs
  /\ \E k \in Used :
       /\ candidates[k] \in BadAddrs
       /\ ipc[k] = "returned"
       /\ verdict[k] = "false"
       /\ cpc[k] = "done"

\* C7: once a candidate's address has been delivered on resultCh and the
\* caller is at its receive, the caller returns an address even if no other
\* goroutine ever takes another step.
C7_ReturnsWithoutWaiting ==
  (pc = "recv" /\ resultCh # << >>) ~> (pc = "done" /\ ret \in Addresses)

C7_Witness ==
  /\ pc = "done"
  /\ ret \in GoodAddrs
  /\ \E i \in Used : cpc[i] = "probing" /\ \E t \in Targets : gpc[i][t] = "get"

\* No goroutine started by Step 2 is still running.
Quiescent ==
  /\ closer \in {"idle", "done"}
  /\ \A i \in Cands : cpc[i] \in {"idle", "done"}
  /\ \A k \in Calls, t \in Targets : gpc[k][t] \in {"idle", "done"}

\* C8: when every goroutine is scheduled and every request completes, all
\* candidate goroutines, their probe goroutines and the closer eventually
\* terminate and stay terminated.
C8_NoGoroutineLeak == <>[]Quiescent

C8_Witness ==
  /\ pc = "done"
  /\ closer = "done"
  /\ \A i \in Used : cpc[i] = "done"
  /\ Len(candidates) = 2
  /\ \E i \in Used : sends[i] = "dropped"

\* C9: resultCh is closed at most once and only after every candidate
\* goroutine has finished, no goroutine sends on a closed channel, and a
\* candidate at its select can always take a step.
C9_NoSendOnClosed ==
  /\ ~panicked
  /\ closes <= 1
  /\ closes > 0 => \A i \in Used : cpc[i] = "done"
  /\ \A i \in Used : cpc[i] = "select" => ENABLED CandSelect(i)

C9_Witness ==
  /\ pc = "done"
  /\ closes = 1
  /\ ~panicked
  /\ \E i \in Used :
       /\ sends[i] = "sent"
       /\ resultCh = <<candidates[i]>>
       /\ ret \in GoodAddrs \ {candidates[i]}

\* C10: when every goroutine is scheduled and every request completes,
\* findAvailableProxy returns, for every input and every probe outcome.
C10_AlwaysReturns == <>(pc = "done")

C10_Witness ==
  /\ pc = "done"
  /\ ret = ""
  /\ configProxy \in GoodAddrs
  /\ Len(candidates) = 2
  /\ \A i \in Used : candidates[i] \in GoodAddrs

\* C12: every candidate's probe is started and proceeds without waiting for
\* any other candidate: the go statement of the loop, the candidate's prober
\* call and its GET requests can each take their step whatever the other
\* candidates are doing.
C12_CandidatesProbeInParallel ==
  /\ (pc = "spawn" /\ next <= Len(candidates)) => ENABLED MainSpawnCandidate
  /\ \A i \in Used :
       /\ cpc[i] = "start" => ENABLED CandCall(i)
       /\ ipc[i] = "parse" => ENABLED ProberParse(i)
       /\ ipc[i] = "spawn" => ENABLED ProberSpawn(i)
       /\ \A t \in Targets : gpc[i][t] = "get" => ENABLED ProbeGet(i, t)

C12_Witness ==
  /\ Len(candidates) = 2
  /\ pc = "recv"
  /\ \A i \in Used :
       /\ cpc[i] = "probing"
       /\ \A t \in Targets : gpc[i][t] = "get"

\* C13: isProxyAvailable has a verdict only once every probe goroutine it
\* started has delivered its outcome and finished, whether the verdict is
\* true or false, and a probe goroutine at its send never finds the results
\* channel full.
C13_VerdictAfterAllProbes ==
  /\ \A k \in Calls :
       (verdict[k] # "none" /\ addrOf(k) \notin BadAddrs) =>
          \A t \in Targets : gpc[k][t] = "done" /\ gets[k][t] = 1
  /\ \A k \in Calls, t \in Targets :
       gpc[k][t] = "send" => ENABLED ProbeSend(k, t)

C13_Witness ==
  \E k \in Calls :
    /\ ipc[k] = "ret"
    /\ verdict[k] = "false"
    /\ results[k] = <<TRUE>>
    /\ \A t \in Targets : gpc[k][t] = "done"

\* Number of probe goroutines of prober call k that have delivered.
delivered(k) == Cardinality({t \in Targets : gpc[k][t] = "done"})

\* C14: within one prober call at most one GET is issued per target, a
\* goroutine that has got its answer has issued exactly one, a call that
\* returns on an address that parses has issued exactly one per target, and
\* exactly one outcome per finished probe is in the results channel when the
\* call starts reading it.
C14_OneRequestPerTarget ==
  \A k \in Calls :
    /\ \A t \in Targets :
         /\ gets[k][t] <= 1
         /\ gpc[k][t] \in {"send", "done"} => gets[k][t] = 1
    /\ ipc[k] \in {"spawn", "wait"} => Len(results[k]) = delivered(k)
    /\ (ipc[k] = "ret" /\ addrOf(k) \notin BadAddrs) =>
         \A t \in Targets : gets[k][t] = 1

C14_Witness ==
  \E k \in Calls :
    /\ ipc[k] = "wait"
    /\ pwg[k] = 0
    /\ Len(results[k]) = Len(testURLs)
    /\ \A t \in Targets : gets[k][t] = 1
    /\ \E t \in Targets : okHist[k][t] = "failed"

\* C15: findAvailableProxy returns "" from Step 2 only when every candidate
\* goroutine has finished and every candidate's prober call returned false.
C15_NoneOnlyAfterAllFailed ==
  (pc = "done" /\ ret = "") =>
     \A i \in Used : cpc[i] = "done" /\ verdict[i] = "false"

C15_Witness ==
  /\ pc = "done"
  /\ ret = ""
  /\ Len(candidates) = 2
  /\ \A i \in Used : candidates[i] \in GoodAddrs /\ verdict[i] = "false"

\* Candidates whose select took the send branch.
sentSet == {i \in Used : sends[i] = "sent"}

opsAt(names) == {n \in DOMAIN oplog : oplog[n].op \in names}

\* The release fetches, downloads and git commands of the pipeline.
PipelineOps == {"fetch", "download", "git add", "git commit", "git push"}

\* C11: main calls findAvailableProxy once, and before any release fetch,
\* download or git command; from the first of these operations on, a
\* non-empty result is the value of both HTTP_PROXY and HTTPS_PROXY and an
\* empty result has set neither; an empty result does not end the process.
C11_ProxySetBeforePipeline ==
  /\ Cardinality(opsAt({"findAvailableProxy"})) <= 1
  /\ opsAt(PipelineOps) # {} =>
       /\ oplog[1].op = "findAvailableProxy"
       /\ proxy \in SelectorResults
  /\ (opsAt(PipelineOps) # {} \/ mpc \in {"mkdir", "fetch"}) =>
       /\ proxy # "" => env = [HTTP_PROXY |-> proxy, HTTPS_PROXY |-> proxy]
       /\ proxy = "" => env = [HTTP_PROXY |-> "", HTTPS_PROXY |-> ""]
  /\ proxy = "" => mpc \notin {"setenv1", "setenv2"}
  /\ mpc = "fatal" =>
       /\ oplog[Len(oplog)].op # "findAvailableProxy"
       /\ ~oplog[Len(oplog)].ok

C11_Witness ==
  /\ proxy = "http://127.0.0.1:7891"
  /\ env = [HTTP_PROXY |-> proxy, HTTPS_PROXY |-> proxy]
  /\ mpc = "finished"
  /\ opsAt({"git push"}) # {}

\* Positions in the log of the operations in names done for component c.
opsOf(c, names) ==
  {n \in DOMAIN oplog : oplog[n].op \in names /\ oplog[n].arg = Components[c]}

GitOps == {"git add", "git commit", "git push"}

\* The update function of component c has returned to main.
updated(c) == c < comp \/ mpc = "finished"

\* Every git command run for component c comes after a successful write of
\* its destination file.
writtenBeforeGit(c) ==
  \A n \in opsOf(c, GitOps) : \E m \in opsOf(c, {"write"}) : m < n /\ oplog[m].ok

\* C16 as stated: when the destination file exists with the new artifact's
\* SHA-256, it is not written and no git command is run; otherwise the file
\* is written before git add/commit is run.
C16_SkipWhenFileHasSameHash ==
  \A c \in DOMAIN Components :
    artifact[c] # "none" =>
      IF dest0[c] # "missing" /\ sha256(dest0[c]) = sha256(artifact[c])
        THEN opsOf(c, {"write"}) = {} /\ opsOf(c, GitOps) = {}
        ELSE writtenBeforeGit(c)

\* C16 amended: when fileHash could read the destination file and its digest
\* equals the new artifact's, the file is not written and no git command is
\* run; otherwise (file missing, unreadable or different) WriteFile is called,
\* git commands run only after it has succeeded, and an update function that
\* returns has then written the artifact and run git add.
C16_SkipWhenHashReadAndEqual ==
  \A c \in DOMAIN Components :
    currentHash[c] # "none" =>
      IF bytesEqual(currentHash[c], sha256(artifact[c]))
        THEN /\ opsOf(c, {"write"}) = {}
             /\ opsOf(c, GitOps) = {}
             /\ dest[c] = dest0[c]
             /\ sha256(dest[c]) = sha256(artifact[c])
        ELSE /\ writtenBeforeGit(c)
             /\ updated(c) =>
                  /\ dest[c] = artifact[c]
                  /\ opsOf(c, {"git add"}) # {}

C16_Witness ==
  /\ mpc = "finished"
  /\ dest0[1] = "v1" /\ artifact[1] = "v1" /\ currentHash[1] = sha256("v1")
  /\ opsOf(1, {"write"} \cup GitOps) = {}
  /\ dest0[2] = "v1" /\ artifact[2] = "v2"
  /\ opsOf(2, {"write"}) # {} /\ opsOf(2, {"git commit"}) # {}

\* The git commands run for component c, in order.
gitRun(c) ==
  LET isGit(e) == e.op \in GitOps /\ e.arg = Components[c]
  IN SelectSeq(oplog, isGit)

\* C17: runGitCommands runs git add, git commit and, only with the push
\* flag, git push, in that order; a failed command is the last one run and
\* makes it return an error; it returns nil only after all of them succeeded.
C17_GitStopsAtFirstFailure ==
  \A c \in DOMAIN Components :
    LET g == gitRun(c) IN
      /\ Len(g) <= Len(cmds(push))
      /\ \A n \in DOMAIN g : g[n].op = cmds(push)[n]
      /\ \A n \in DOMAIN g : n < Len(g) => g[n].ok
      /\ ~push => opsOf(c, {"git push"}) = {}
      /\ (c = comp /\ mpc = "gitret") =>
           /\ gitErr \in {"nil", "error"}
           /\ (gitErr = "error") = (g # << >> /\ ~g[Len(g)].ok)
           /\ gitErr = "nil" => (Len(g) = Len(cmds(push)) /\ \A n \in DOMAIN g : g[n].ok)

C17_Witness ==
  /\ push
  /\ mpc = "gitret"
  /\ gitErr = "error"
  /\ LET g == gitRun(comp) IN
       /\ Len(g) = 2
       /\ g[1].op = "git add" /\ g[1].ok
       /\ g[2].op = "git commit" /\ ~g[2].ok

====
